---------------------------- MODULE Spec2Model ----------------------------
(***************************************************************************)
(* Model of src/index.js: the "TARA ADB Control Server".  Five tools are   *)
(* registered on a FastMCP server; each tool's execute handler builds one  *)
(* adb command string, hands it to executeCommand (child_process.exec      *)
(* wrapped in a Promise), awaits it and returns a text.                    *)
(*                                                                         *)
(* A request slot r goes  idle -> awaiting -> done  (or idle -> done when  *)
(* the declared zod schema rejects the arguments).  Several slots may be   *)
(* in flight at once; the child processes finish in any order.             *)
(***************************************************************************)
EXTENDS Integers, Sequences, FiniteSets, TLC

\* Number of tool calls that may be in flight at the same time.
MaxReqs == 2

Reqs == 1 .. MaxReqs

VARIABLES
    pc,        \* pc[r]: "idle" | "awaiting" | "done"  (position of the call)
    tool,      \* tool[r]: name of the tool that was called
    arg,       \* arg[r]: the value of the tool's single parameter
    child,     \* child[r]: the process started by exec() for this call
    promise,   \* promise[r]: the Promise returned by executeCommand
    response,  \* response[r]: what the caller gets back
    spawns,    \* spawns[r]: number of exec() calls made for this call
    console    \* console[r]: lines written by the exec callback of this call

vars == <<pc, tool, arg, child, promise, response, spawns, console>>

-----------------------------------------------------------------------------
(* The registry: names and declared parameter schemas                      *)

Tools == {"wifi_control", "device_list", "bt_control",
          "volume_control", "music_control"}

\* device_list declares z.object({}): it has no parameter.
NoArg == "-"

\* Values a caller may send where a tool's schema does not list them: one
\* that no schema lists, and two that only another tool's schema lists.
BadValues == {"loud", "on", "mute"}

\* parameters: z.object({ state|action: z.enum([...]) }), one per tool.
Parameters(t) ==
    CASE t = "wifi_control"   -> {"on", "off"}
      [] t = "device_list"    -> {NoArg}
      [] t = "bt_control"     -> {"on", "off"}
      [] t = "volume_control" -> {"increase", "decrease", "mute"}
      [] t = "music_control"  -> {"play", "pause", "next", "previous",
                                  "resume", "stop"}

\* What a caller can put on the wire for tool t.
Inputs(t) == IF t = "device_list" THEN {NoArg} ELSE Parameters(t) \cup BadValues

\* Variant: the arguments reach execute without being parsed by the schema.
ValidateAny(t, a) == TRUE

\* The framework parses the arguments with the tool's schema and calls
\* execute only when the parse succeeds.
Validate(t, a) == a \in Parameters(t)


-----------------------------------------------------------------------------
(* The handlers' synchronous part: from the arguments to the adb command   *)

\* Variant: the two branches of the conditional exchanged.
wifi_adbCommandSwapped(state) ==
    IF state = "on" THEN "adb shell svc wifi disable"
                    ELSE "adb shell svc wifi enable"

\* wifi_control.execute: const adbCommand = state === 'on' ? ... : ...
wifi_adbCommand(state) ==
    IF state = "on" THEN "adb shell svc wifi enable"
                    ELSE "adb shell svc wifi disable"

\* device_list.execute: const adbCommand = 'adb devices'
device_list_adbCommand == "adb devices"

\* bt_control.execute: const adbCommand = state === 'on' ? ... : ...
bt_adbCommand(state) ==
    IF state = "on" THEN "adb shell svc bluetooth enable"
                    ELSE "adb shell svc bluetooth disable"

\* volume_control.execute: const keyeventMap = {...}
volume_keyeventMap ==
    [a \in {"increase", "decrease", "mute"} |->
        CASE a = "increase" -> 24
          [] a = "decrease" -> 25
          [] a = "mute"     -> 164]

\* Variant: the map lacks an entry for an action the schema accepts.
music_keyeventMapNoResume ==
    [a \in {"play", "pause", "next", "previous", "stop"} |->
        CASE a = "play"     -> 126
          [] a = "pause"    -> 127
          [] a = "next"     -> 87
          [] a = "previous" -> 88
          [] a = "stop"     -> 86]

\* music_control.execute: const keyeventMap = {...}
music_keyeventMap ==
    [a \in {"play", "pause", "next", "previous", "resume", "stop"} |->
        CASE a = "play"     -> 126
          [] a = "pause"    -> 127
          [] a = "next"     -> 87
          [] a = "previous" -> 88
          [] a = "resume"   -> 126
          [] a = "stop"     -> 86]

\* keyeventMap[action]: a key the object does not have reads as undefined.
\* undefined is written 0 here; both are falsy, and no entry of either map
\* is 0.
Undefined == 0
Lookup(map, key) == IF key \in DOMAIN map THEN map[key] ELSE Undefined

\* `adb shell input keyevent ${keyevent}`
keyevent_adbCommand(keyevent) == "adb shell input keyevent " \o ToString(keyevent)

\* The part of execute that runs before the await.  The result says either
\* that the handler reached executeCommand(adbCommand), or that it entered
\* the block of `if (!keyevent) {f ...`, whose first statement evaluates
\* the undeclared identifier f: a ReferenceError, thrown out of the handler.
Reached(cmd) == [threw |-> FALSE, adbCommand |-> cmd]
GuardBlock   == [threw |-> TRUE,  adbCommand |-> ""]

keyevent_prefix(map, action) ==
    LET keyevent == Lookup(map, action)
    IN  IF keyevent = Undefined THEN GuardBlock
                                ELSE Reached(keyevent_adbCommand(keyevent))

ExecutePrefix(t, a) ==
    CASE t = "wifi_control"   -> Reached(wifi_adbCommand(a))
      [] t = "device_list"    -> Reached(device_list_adbCommand)
      [] t = "bt_control"     -> Reached(bt_adbCommand(a))
      [] t = "volume_control" -> keyevent_prefix(volume_keyeventMap, a)
      [] t = "music_control"  -> keyevent_prefix(music_keyeventMap, a)

-----------------------------------------------------------------------------
(* executeCommand: child_process.exec wrapped in a Promise                 *)

\* What the external command can do once started.  spawnError: the shell
\* could not be started at all; code: the exit status otherwise.
Outcomes ==
    { [spawnError |-> FALSE, code |-> 0, stdout |-> "out", stderr |-> ""],
      [spawnError |-> FALSE, code |-> 0, stdout |-> "out", stderr |-> "warning"],
      [spawnError |-> FALSE, code |-> 1, stdout |-> "",    stderr |-> "no devices"],
      [spawnError |-> TRUE,  code |-> 0, stdout |-> "",    stderr |-> ""] }

NoOutcome == [spawnError |-> FALSE, code |-> 0, stdout |-> "", stderr |-> ""]

\* The first argument exec passes to its callback: null on a clean exit, an
\* Error otherwise.
NoError == [raised |-> FALSE, message |-> ""]
ExecError(command, o) ==
    IF o.spawnError THEN [raised |-> TRUE, message |-> "spawn /bin/sh ENOENT"]
    ELSE IF o.code # 0
         THEN [raised |-> TRUE,
               message |-> "Command failed: " \o command \o "\n" \o o.stderr]
         ELSE NoError

\* exec(command, callback) with no options: the command string is run by a
\* shell, and no timeout is set (the default, 0, means none).
NoChild == [status |-> "none", via |-> "", command |-> "", outcome |-> NoOutcome]
exec(command) ==
    [status |-> "running", via |-> "shell", command |-> command,
     outcome |-> NoOutcome]

NoPromise == [state |-> "none",    value |-> "", error |-> NoError]
Pending   == [state |-> "pending", value |-> "", error |-> NoError]

\* Variant: output on standard error is treated as a failure too.
ExecCallbackStderr(error, stdout, stderr) ==
    IF error.raised \/ stderr # ""
    THEN [promise |-> [state |-> "rejected", value |-> "",
                       error |-> [raised |-> TRUE, message |-> stderr]],
          console |-> <<"Exec Error: " \o stderr>>]
    ELSE [promise |-> [state |-> "resolved", value |-> stdout, error |-> NoError],
          console |-> <<>>]

\* Body of the callback, (error, stdout, stderr) => {...}: how the promise
\* is settled and what is written to the console.
ExecCallback(error, stdout, stderr) ==
    IF error.raised
    THEN [promise |-> [state |-> "rejected", value |-> "", error |-> error],
          console |-> <<"Exec Error: " \o error.message>>]
    ELSE [promise |-> [state |-> "resolved", value |-> stdout, error |-> NoError],
          console |-> IF stderr # "" THEN <<"Stderr: " \o stderr>> ELSE <<>>]

-----------------------------------------------------------------------------
(* The handlers' part after the await                                      *)

\* The string returned after `await executeCommand(adbCommand)`.
SuccessText(t, a, output) ==
    CASE t = "wifi_control"   -> "Successfully turned WiFi " \o a \o "."
      [] t = "device_list"    -> "Connected devices:\n" \o output
      [] t = "bt_control"     -> "Successfully turned Bluetooth " \o a \o "."
      [] t = "volume_control" ->
            "Successfully performed " \o a \o " action on music playback."
      [] t = "music_control"  ->
            "Successfully performed " \o a \o " action on music playback."

\* Variant: the handler lets the rejection through.
CatchRethrow(error) == [how |-> "threw", text |-> error.message]

\* catch (error) { return `ADB command failed: ${error.message}`; }
Catch(error) ==
    [how |-> "returned", text |-> "ADB command failed: " \o error.message]

\* try { await ...; return ...; } catch (error) {...}
AfterAwait(t, a, p) ==
    IF p.state = "resolved"
    THEN [how |-> "returned", text |-> SuccessText(t, a, p.value)]
    ELSE Catch(p.error)

\* How the server answers the caller.  A value returned by execute is
\* relayed as the tool's result; an exception thrown by execute is answered
\* as a tool error; arguments the schema rejects are answered as an
\* invalid-parameters error without execute being called.
NoResponse == [kind |-> "none", text |-> ""]
Relay(completion) ==
    [kind |-> IF completion.how = "returned" THEN "result" ELSE "error",
     text |-> completion.text]
InvalidParams(t, a) ==
    [kind |-> "invalid_params", text |-> "Invalid " \o t \o " parameters"]

-----------------------------------------------------------------------------
(* State machine                                                           *)

Init ==
    /\ pc       = [r \in Reqs |-> "idle"]
    /\ tool     = [r \in Reqs |-> ""]
    /\ arg      = [r \in Reqs |-> ""]
    /\ child    = [r \in Reqs |-> NoChild]
    /\ promise  = [r \in Reqs |-> NoPromise]
    /\ response = [r \in Reqs |-> NoResponse]
    /\ spawns   = [r \in Reqs |-> 0]
    /\ console  = [r \in Reqs |-> <<>>]

\* A tools/call request for tool t with argument a arrives in slot r: the
\* schema is applied, and on success execute runs up to its await.
CallTool(r, t, a) ==
    /\ pc[r] = "idle"
    /\ tool' = [tool EXCEPT ![r] = t]
    /\ arg'  = [arg EXCEPT ![r] = a]
    /\ IF ~Validate(t, a)
       THEN /\ pc' = [pc EXCEPT ![r] = "done"]
            /\ response' = [response EXCEPT ![r] = InvalidParams(t, a)]
            /\ UNCHANGED <<child, promise, spawns>>
       ELSE LET pre == ExecutePrefix(t, a)
            IN  IF pre.threw
                THEN /\ pc' = [pc EXCEPT ![r] = "done"]
                     /\ response' = [response EXCEPT ![r] =
                            Relay([how |-> "threw",
                                   text |-> "ReferenceError: f is not defined"])]
                     /\ UNCHANGED <<child, promise, spawns>>
                ELSE /\ pc' = [pc EXCEPT ![r] = "awaiting"]
                     /\ child' = [child EXCEPT ![r] = exec(pre.adbCommand)]
                     /\ promise' = [promise EXCEPT ![r] = Pending]
                     /\ spawns' = [spawns EXCEPT ![r] = @ + 1]
                     /\ UNCHANGED response
    /\ UNCHANGED console

wifi_control(r)   == \E state \in Inputs("wifi_control") :
                        CallTool(r, "wifi_control", state)
device_list(r)    == CallTool(r, "device_list", NoArg)
bt_control(r)     == \E state \in Inputs("bt_control") :
                        CallTool(r, "bt_control", state)
volume_control(r) == \E action \in Inputs("volume_control") :
                        CallTool(r, "volume_control", action)
music_control(r)  == \E action \in Inputs("music_control") :
                        CallTool(r, "music_control", action)

\* Variant: resolve and reject are kept in one place shared by all calls, so
\* the callback settles the promise of another pending call when there is one.
ChildCloseCross(r, o) ==
    /\ child[r].status = "running"
    /\ LET cb == ExecCallback(ExecError(child[r].command, o), o.stdout, o.stderr)
           others == {q \in Reqs \ {r} : promise[q].state = "pending"}
           target == IF others # {} THEN CHOOSE q \in others : TRUE ELSE r
       IN  /\ promise' = [promise EXCEPT ![target] = cb.promise]
           /\ console' = [console EXCEPT ![r] = @ \o cb.console]
    /\ child' = [child EXCEPT ![r] = [@ EXCEPT !.status = "exited", !.outcome = o]]
    /\ UNCHANGED <<pc, tool, arg, response, spawns>>

\* The child of call r ends with outcome o; exec runs the callback, which
\* settles the promise of the same executeCommand call.
ChildClose(r, o) ==
    /\ child[r].status = "running"
    /\ LET cb == ExecCallback(ExecError(child[r].command, o), o.stdout, o.stderr)
       IN  /\ promise' = [promise EXCEPT ![r] = cb.promise]
           /\ console' = [console EXCEPT ![r] = @ \o cb.console]
    /\ child' = [child EXCEPT ![r] = [@ EXCEPT !.status = "exited", !.outcome = o]]
    /\ UNCHANGED <<pc, tool, arg, response, spawns>>

\* The external command blocks for good (adb waiting for a device that
\* never shows up).  Nothing in executeCommand ends such a child.
ChildHang(r) ==
    /\ child[r].status = "running"
    /\ child' = [child EXCEPT ![r] = [@ EXCEPT !.status = "hung"]]
    /\ UNCHANGED <<pc, tool, arg, promise, response, spawns, console>>

\* Variant: a rejected invocation is run once more before giving up.
ResumeRetry(r) ==
    /\ pc[r] = "awaiting"
    /\ promise[r].state \in {"resolved", "rejected"}
    /\ IF promise[r].state = "rejected" /\ spawns[r] < 2
       THEN /\ child' = [child EXCEPT ![r] = exec(child[r].command)]
            /\ promise' = [promise EXCEPT ![r] = Pending]
            /\ spawns' = [spawns EXCEPT ![r] = @ + 1]
            /\ UNCHANGED <<pc, response>>
       ELSE /\ pc' = [pc EXCEPT ![r] = "done"]
            /\ response' = [response EXCEPT ![r] =
                                Relay(AfterAwait(tool[r], arg[r], promise[r]))]
            /\ UNCHANGED <<child, promise, spawns>>
    /\ UNCHANGED <<tool, arg, console>>

\* The handler continues after its await and its return value is relayed.
Resume(r) ==
    /\ pc[r] = "awaiting"
    /\ promise[r].state \in {"resolved", "rejected"}
    /\ pc' = [pc EXCEPT ![r] = "done"]
    /\ response' = [response EXCEPT ![r] =
                        Relay(AfterAwait(tool[r], arg[r], promise[r]))]
    /\ UNCHANGED <<tool, arg, child, promise, spawns, console>>

Next ==
    \E r \in Reqs :
        \/ wifi_control(r)
        \/ device_list(r)
        \/ bt_control(r)
        \/ volume_control(r)
        \/ music_control(r)
        \/ \E o \in Outcomes : ChildClose(r, o)
        \/ ChildHang(r)
        \/ Resume(r)

Spec == Init /\ [][Next]_vars

\* The event loop runs every callback and continuation that is ready, and a
\* child that has not blocked for good eventually ends.
FairSpec ==
    /\ Spec
    /\ \A r \in Reqs : WF_vars(\E o \in Outcomes : ChildClose(r, o))
    /\ \A r \in Reqs : WF_vars(Resume(r))

-----------------------------------------------------------------------------
(* Shorthands used by the properties                                       *)

Accepted(r)  == pc[r] # "idle" /\ arg[r] \in Parameters(tool[r])
Finished(r)  == pc[r] = "done" /\ child[r].status = "exited"
Failed(o)    == o.spawnError \/ o.code # 0

-----------------------------------------------------------------------------
\* C1: for every tool and every way the child process can end (clean exit,
\* non-zero exit, spawn error), the handler completes by returning: the
\* continuation after the await is ready to run as soon as the child has
\* ended, and a call that went through execute is never answered with an
\* exception thrown out of the handler.
C1_HandlerAlwaysReturns ==
    \A r \in Reqs :
        /\ (pc[r] = "awaiting" /\ child[r].status = "exited") => ENABLED Resume(r)
        /\ (pc[r] = "done" /\ Accepted(r)) => response[r].kind = "result"

C1_Witness ==
    \E r \in Reqs :
        /\ Finished(r)
        /\ child[r].outcome.spawnError
        /\ response[r].kind = "result"

\* C2: executeCommand rejects exactly when the child exited non-zero or the
\* invocation raised an error; on a clean exit it resolves with the captured
\* standard output, whatever was written to standard error.
C2_RejectsIffFailed ==
    \A r \in Reqs :
        child[r].status = "exited" =>
            /\ promise[r].state = "rejected" <=> Failed(child[r].outcome)
            /\ promise[r].state = "resolved" <=> ~Failed(child[r].outcome)
            /\ promise[r].state = "resolved" =>
                    promise[r].value = child[r].outcome.stdout

C2_Witness ==
    \E r \in Reqs :
        /\ child[r].status = "exited"
        /\ child[r].outcome.code = 0
        /\ child[r].outcome.stderr # ""
        /\ promise[r].state = "resolved"
        /\ promise[r].value = "out"

\* C3: every invocation is governed by a timeout: a call whose child never
\* ends does not stay pending for ever, and it ends with no child of its
\* own left running.
C3_TimeoutEndsCall ==
    \A r \in Reqs :
        (pc[r] = "awaiting") ~> (pc[r] = "done" /\ child[r].status = "exited")

\* C4: the outcome is visible in the kind of the response: a successful
\* invocation is answered as a tool result, a failed one as a tool error,
\* never both through the same kind.
C4_OutcomeInResponseKind ==
    \A r \in Reqs :
        Finished(r) =>
            /\ ~Failed(child[r].outcome) => response[r].kind = "result"
            /\ Failed(child[r].outcome)  => response[r].kind = "error"

\* C5: the bridge is started with an argument vector; no command string is
\* handed to a shell.
C5_ArgumentVector ==
    \A r \in Reqs :
        child[r].status # "none" => child[r].via = "argv"

\* C6: a call whose parameter is not one of the values its tool enumerates
\* (volume_control: increase, decrease, mute; wifi_control and bt_control:
\* on, off; music_control: play, pause, next, previous, resume, stop) is
\* answered with a validation error, starts no child process and gets no
\* success message.
C6_Enumerated(t) ==
    CASE t = "volume_control" -> {"increase", "decrease", "mute"}
      [] t = "wifi_control"   -> {"on", "off"}
      [] t = "bt_control"     -> {"on", "off"}
      [] t = "music_control"  -> {"play", "pause", "next", "previous",
                                  "resume", "stop"}
      [] OTHER                -> {NoArg}

C6_InvalidEnumRejected ==
    \A r \in Reqs :
        (pc[r] # "idle" /\ arg[r] \notin C6_Enumerated(tool[r])) =>
            /\ pc[r] = "done"
            /\ response[r].kind = "invalid_params"
            /\ spawns[r] = 0
            /\ child[r].status = "none"
            /\ promise[r].state = "none"

C6_Witness ==
    \E r \in Reqs :
        /\ tool[r] = "volume_control"
        /\ arg[r] = "loud"
        /\ pc[r] = "done"
        /\ response[r].kind = "invalid_params"

\* C7: wifi_control "on" runs exactly the wifi enable command and "off" the
\* wifi disable command, bt_control likewise for bluetooth; a success text
\* naming the requested state is returned when the invocation succeeded,
\* and only then.
C7_Command(t, state) ==
    CASE t = "wifi_control" /\ state = "on"  -> "adb shell svc wifi enable"
      [] t = "wifi_control" /\ state = "off" -> "adb shell svc wifi disable"
      [] t = "bt_control"   /\ state = "on"  -> "adb shell svc bluetooth enable"
      [] t = "bt_control"   /\ state = "off" -> "adb shell svc bluetooth disable"

C7_Confirmation(t, state) ==
    CASE t = "wifi_control" /\ state = "on"  -> "Successfully turned WiFi on."
      [] t = "wifi_control" /\ state = "off" -> "Successfully turned WiFi off."
      [] t = "bt_control"   /\ state = "on"  -> "Successfully turned Bluetooth on."
      [] t = "bt_control"   /\ state = "off" -> "Successfully turned Bluetooth off."

C7_StateCommandAndConfirmation ==
    \A r \in Reqs :
        (tool[r] \in {"wifi_control", "bt_control"} /\ Accepted(r)) =>
            /\ child[r].command = C7_Command(tool[r], arg[r])
            /\ spawns[r] = 1
            /\ pc[r] = "done" =>
                 /\ child[r].status = "exited"
                 /\ response[r].text = C7_Confirmation(tool[r], arg[r])
                        <=> ~Failed(child[r].outcome)

C7_Witness ==
    \E r \in Reqs :
        /\ tool[r] = "wifi_control"
        /\ arg[r] = "on"
        /\ Finished(r)
        /\ child[r].command = "adb shell svc wifi enable"
        /\ response[r].text = "Successfully turned WiFi on."

\* C8: an accepted call makes exactly one external invocation: exec is
\* called once, never again after a failure, and the response exists only
\* once that child has ended.
C8_OneInvocationPerCall ==
    \A r \in Reqs :
        /\ spawns[r] <= 1
        /\ Accepted(r) => spawns[r] = 1
        /\ (Accepted(r) /\ response[r].kind # "none") =>
                pc[r] = "done" /\ child[r].status = "exited"
        /\ child[r].status \in {"running", "hung"} => response[r].kind = "none"

C8_Witness ==
    \E r \in Reqs :
        /\ Finished(r)
        /\ Failed(child[r].outcome)
        /\ spawns[r] = 1
        /\ response[r].kind # "none"

\* C9: calls in flight together are independent: the command a call runs
\* depends only on its own tool and parameter, its promise is settled only
\* by its own child, and two calls with the same tool, parameter and child
\* outcome get the same response whatever the other calls did.
C9_Independent ==
    \A r1, r2 \in Reqs :
        /\ promise[r1].state \in {"resolved", "rejected"} =>
                /\ child[r1].status = "exited"
                /\ promise[r1] =
                     ExecCallback(ExecError(child[r1].command, child[r1].outcome),
                                  child[r1].outcome.stdout,
                                  child[r1].outcome.stderr).promise
        /\ (Accepted(r1) /\ Accepted(r2)
              /\ tool[r1] = tool[r2] /\ arg[r1] = arg[r2]) =>
                /\ child[r1].command = child[r2].command
                /\ (Finished(r1) /\ Finished(r2)
                      /\ child[r1].outcome = child[r2].outcome) =>
                        response[r1] = response[r2]

C9_Witness ==
    \E r1, r2 \in Reqs :
        /\ r1 # r2
        /\ tool[r1] = tool[r2] /\ arg[r1] = arg[r2]
        /\ pc[r1] = "done" /\ pc[r2] = "awaiting"
        /\ child[r1].status = "exited" /\ child[r2].status = "exited"
        /\ child[r1].outcome # child[r2].outcome
        /\ promise[r1].state # promise[r2].state

\* C10: for every action the volume_control and music_control schemas
\* accept, the keyevent lookup gives its non-zero code (24, 25, 164; 126,
\* 127, 87, 88, 126, 86), the handler reaches executeCommand with
\* 'adb shell input keyevent <code>', and the 'Unsupported action' block is
\* not entered.
C10_Code(action) ==
    CASE action = "increase" -> 24
      [] action = "decrease" -> 25
      [] action = "mute"     -> 164
      [] action = "play"     -> 126
      [] action = "pause"    -> 127
      [] action = "next"     -> 87
      [] action = "previous" -> 88
      [] action = "resume"   -> 126
      [] action = "stop"     -> 86

C10_KeyeventAlwaysDefined ==
    \A r \in Reqs :
        (tool[r] \in {"volume_control", "music_control"} /\ Accepted(r)) =>
            /\ Lookup(IF tool[r] = "volume_control" THEN volume_keyeventMap
                                                    ELSE music_keyeventMap,
                      arg[r]) = C10_Code(arg[r])
            /\ C10_Code(arg[r]) # Undefined
            /\ child[r].status # "none"
            /\ child[r].command =
                  "adb shell input keyevent " \o ToString(C10_Code(arg[r]))
            /\ response[r].kind # "error"

C10_Witness ==
    \E r \in Reqs :
        /\ tool[r] = "music_control"
        /\ arg[r] = "resume"
        /\ pc[r] = "awaiting"
        /\ child[r].command = "adb shell input keyevent 126"

=============================================================================
